---- MODULE Spec2Model ----
(***************************************************************************)
(* Port-knocking sentinel: the knock state machine (knock_state.rs), the   *)
(* header decoder's acceptance rules (knock_meta.rs), and the admission    *)
(* engine handle_knock, the cleanup sweep perform_cleanup and the biased   *)
(* event loop run (main.rs).  Each step of the model is one handler step:  *)
(* a whole handle_knock, the entry of perform_cleanup, one iteration of    *)
(* its loop, or its return; the clock and the socket change between them.  *)
(* Time is counted in whole seconds.                                       *)
(***************************************************************************)
EXTENDS Integers, Sequences, FiniteSets, TLC

(* ------------------------------ bounds -------------------------------- *)

\* No packet arrives while the expiration queue holds this many entries.
MaxQueue == 4

\* No packet arrives once the store has issued this many keys.
MaxKeys == 5

\* The addresses that occur in packet headers.
Addrs == {"A", "B"}

(* ------------------------- program constants -------------------------- *)

PORT_SEQUENCE == <<123, 436, 1928, 29545>>

PENDING_DURATION == 5

PASSED_DURATION == 30

\* Period of cleanup_interval.
CLEANUP_PERIOD == 5

\* The values the cached clock is seen to take, in seconds since start-up:
\* start-up, an instant inside a pending window opened at start-up, and the
\* end of a passed window opened at start-up, by when every pending window
\* opened at the earlier instants has elapsed.
Instants == {0, 3, PASSED_DURATION}

\* PORT_SEQUENCE[i] with Rust's 0-based index.
SeqAt(i) == PORT_SEQUENCE[i + 1]

\* Destination ports tried: the four sequence ports and one foreign port.
Ports == {SeqAt(i) : i \in 0..(Len(PORT_SEQUENCE) - 1)} \cup {80}

(* --------------------------- KnockState ------------------------------- *)

PortPending(idx, exp) == [type |-> "PortPending", last_idx |-> idx, expires |-> exp]

Passed(exp) == [type |-> "Passed", last_idx |-> 0, expires |-> exp]

Failed == [type |-> "Failed", last_idx |-> 0, expires |-> 0]

\* Option::None for a KnockState.
NoState == [type |-> "None", last_idx |-> 0, expires |-> 0]

\* A slice index out of bounds aborts the process.
Panicked == [type |-> "Panic", last_idx |-> 0, expires |-> 0]

try_new(port, recent) ==
    IF port = SeqAt(0)
    THEN PortPending(0, recent + PENDING_DURATION)
    ELSE Failed

\* progress with the end of the sequence taken one step early.
progress_early_pass(self, port, recent) ==
    IF self.type # "PortPending" THEN self
    ELSE IF port = SeqAt(0) THEN PortPending(0, recent + PENDING_DURATION)
    ELSE IF port = SeqAt(self.last_idx)
         THEN PortPending(self.last_idx, recent + PENDING_DURATION)
    ELSE IF port # SeqAt(self.last_idx + 1) THEN Failed
    ELSE IF self.last_idx + 3 >= Len(PORT_SEQUENCE)
         THEN Passed(recent + PASSED_DURATION)
    ELSE PortPending(self.last_idx + 1, recent + PENDING_DURATION)

\* progress without the bad-knock test: any other port advances.
progress_accepts_any(self, port, recent) ==
    IF self.type # "PortPending" THEN self
    ELSE IF port = SeqAt(0) THEN PortPending(0, recent + PENDING_DURATION)
    ELSE IF port = SeqAt(self.last_idx)
         THEN PortPending(self.last_idx, recent + PENDING_DURATION)
    ELSE IF self.last_idx + 2 = Len(PORT_SEQUENCE)
         THEN Passed(recent + PASSED_DURATION)
    ELSE PortPending(self.last_idx + 1, recent + PENDING_DURATION)

\* progress without the explicit restart.
progress_no_restart(self, port, recent) ==
    IF self.type # "PortPending" THEN self
    ELSE IF port = SeqAt(self.last_idx)
         THEN PortPending(self.last_idx, recent + PENDING_DURATION)
    ELSE IF port # SeqAt(self.last_idx + 1) THEN Failed
    ELSE IF self.last_idx + 2 = Len(PORT_SEQUENCE)
         THEN Passed(recent + PASSED_DURATION)
    ELSE PortPending(self.last_idx + 1, recent + PENDING_DURATION)

\* progress without the repeated-knock test.
progress_no_repeat(self, port, recent) ==
    IF self.type # "PortPending" THEN self
    ELSE IF port = SeqAt(0) THEN PortPending(0, recent + PENDING_DURATION)
    ELSE IF port # SeqAt(self.last_idx + 1) THEN Failed
    ELSE IF self.last_idx + 2 = Len(PORT_SEQUENCE)
         THEN Passed(recent + PASSED_DURATION)
    ELSE PortPending(self.last_idx + 1, recent + PENDING_DURATION)

\* progress with the end of the sequence taken one step late.
progress_late_pass(self, port, recent) ==
    IF self.type # "PortPending" THEN self
    ELSE IF port = SeqAt(0) THEN PortPending(0, recent + PENDING_DURATION)
    ELSE IF self.last_idx >= Len(PORT_SEQUENCE) THEN Panicked
    ELSE IF port = SeqAt(self.last_idx)
         THEN PortPending(self.last_idx, recent + PENDING_DURATION)
    ELSE IF self.last_idx + 1 >= Len(PORT_SEQUENCE) THEN Panicked
    ELSE IF port # SeqAt(self.last_idx + 1) THEN Failed
    ELSE IF self.last_idx + 1 = Len(PORT_SEQUENCE)
         THEN Passed(recent + PASSED_DURATION)
    ELSE PortPending(self.last_idx + 1, recent + PENDING_DURATION)

progress(self, port, recent) ==
    IF self.type # "PortPending" THEN self
    ELSE IF port = SeqAt(0) THEN PortPending(0, recent + PENDING_DURATION)
    ELSE IF self.last_idx >= Len(PORT_SEQUENCE) THEN Panicked
    ELSE IF port = SeqAt(self.last_idx)
         THEN PortPending(self.last_idx, recent + PENDING_DURATION)
    ELSE IF self.last_idx + 1 >= Len(PORT_SEQUENCE) THEN Panicked
    ELSE IF port # SeqAt(self.last_idx + 1) THEN Failed
    ELSE IF self.last_idx + 2 = Len(PORT_SEQUENCE)
         THEN Passed(recent + PASSED_DURATION)
    ELSE PortPending(self.last_idx + 1, recent + PENDING_DURATION)

is_valid(self, recent) ==
    CASE self.type = "PortPending" -> self.expires > recent
      [] self.type = "Passed" -> self.expires > recent
      [] OTHER -> FALSE

(* ------------------- SlotMap<KnockKey, KnockState> --------------------- *)

\* A key is a slot index and the version the slot had when it was filled.
NoKey == [idx |-> 0, version |-> 0]

\* SlotMap::new(): no slot but the sentinel, whose index 0 no key uses.
sm_new == [slots |-> <<>>, free |-> <<>>]

\* sm_contains without generations: any key of an occupied slot matches.
sm_contains_any_version(sm, k) ==
    /\ k.idx \in 1..Len(sm.slots)
    /\ sm.slots[k.idx].version % 2 = 1

sm_contains(sm, k) ==
    /\ k.idx \in 1..Len(sm.slots)
    /\ sm.slots[k.idx].version = k.version

sm_get(sm, k) == IF sm_contains(sm, k) THEN sm.slots[k.idx].value ELSE NoState

\* The slot a new value goes to: the head of the free list, else a new slot.
sm_next_idx(sm) == IF sm.free # <<>> THEN Head(sm.free) ELSE Len(sm.slots) + 1

\* The occupied version: the vacant slot's version with its low bit set.
sm_next_version(sm) ==
    IF sm.free # <<>> THEN sm.slots[Head(sm.free)].version + 1 ELSE 1

sm_next_key(sm) == [idx |-> sm_next_idx(sm), version |-> sm_next_version(sm)]

sm_insert(sm, v) ==
    LET k == sm_next_key(sm)
        slot == [version |-> k.version, value |-> v]
    IN  IF sm.free # <<>>
        THEN [slots |-> [sm.slots EXCEPT ![k.idx] = slot], free |-> Tail(sm.free)]
        ELSE [slots |-> Append(sm.slots, slot), free |-> sm.free]

\* Removal bumps the slot's version, so the old key never matches again.
sm_remove(sm, k) ==
    IF sm_contains(sm, k)
    THEN [slots |-> [sm.slots EXCEPT ![k.idx] =
                        [version |-> k.version + 1, value |-> NoState]],
          free |-> <<k.idx>> \o sm.free]
    ELSE sm

\* The keys of the records the store holds.
sm_keys(sm) ==
    {[idx |-> i, version |-> sm.slots[i].version] :
        i \in {j \in 1..Len(sm.slots) : sm.slots[j].version % 2 = 1}}

\* The number of keys the store has issued: a slot's version is odd while
\* it is occupied and goes up by one with each insert and each remove.
RECURSIVE sm_issued_upto(_, _)
sm_issued_upto(sm, n) ==
    IF n = 0 THEN 0
    ELSE sm_issued_upto(sm, n - 1) + ((sm.slots[n].version + 1) \div 2)

sm_issued(sm) == sm_issued_upto(sm, Len(sm.slots))

(* ------------------ KnockMeta::try_from (decoder) --------------------- *)

\* What the decoder reads of a frame: the ethertype, the IP next-level
\* protocol, the TCP SYN flag, the two addresses and the destination port.
FrameKinds ==
    { [ethertype |-> "Ipv4", ip_next |-> "Tcp",  syn |-> TRUE],
      [ethertype |-> "Ipv6", ip_next |-> "Udp",  syn |-> FALSE],
      [ethertype |-> "Ipv4", ip_next |-> "Tcp",  syn |-> FALSE],
      [ethertype |-> "Ipv6", ip_next |-> "Icmp", syn |-> FALSE],
      [ethertype |-> "Arp",  ip_next |-> "Udp",  syn |-> FALSE] }

Frame(k, s, d, p) ==
    [ethertype |-> k.ethertype, ip_next |-> k.ip_next, syn |-> k.syn,
     src_addr |-> s, dst_addr |-> d, dst_port |-> p]

\* TCP SYN frames with every pair of addresses and every port, and frames
\* of the other kinds to the first port of the sequence.
Frames ==
    { Frame([ethertype |-> "Ipv4", ip_next |-> "Tcp", syn |-> TRUE], s, d, p) :
        s \in Addrs, d \in Addrs, p \in Ports }
    \cup { Frame(k, a, a, SeqAt(0)) : k \in FrameKinds, a \in Addrs }

\* Ok(KnockMeta) for an IPv4/IPv6 frame that carries UDP or a TCP SYN.
try_from(value) ==
    IF value.ethertype \notin {"Ipv4", "Ipv6"} THEN [ok |-> FALSE]
    ELSE IF value.ip_next = "Tcp" THEN [ok |-> value.syn]
    ELSE IF value.ip_next = "Udp" THEN [ok |-> TRUE]
    ELSE [ok |-> FALSE]

\* The address handle_knock binds to addr: KnockMeta's dst_addr field.
knock_addr(value) == value.dst_addr

\* The port handle_knock binds to port: KnockMeta's dst_port field.
knock_port(value) == value.dst_port

(* ------------------------------ state --------------------------------- *)

VARIABLES
    knock_states,         \* the Record Store (SlotMap)
    active_knocks,        \* the Active-Knock Index: address -> key or NoKey
    expiration_queue,     \* the Expiration Queue: set of (expires, key, addr)
    cleanup_interrupted,  \* run's pending-cleanup signal
    tick_due,             \* cleanup_interval's deadline has passed: tick() is ready
    clock,                \* the cached clock that Instant::recent() returns
    readable,             \* a packet is ready on the socket
    pc,                   \* "select": at run's select!; "cleanup": in perform_cleanup's loop
    now,                  \* perform_cleanup's sample of the clock (0 outside it)
    fatal,                \* "" or the panic that ended the process
    emitted,              \* the log events of the step just taken
    last                  \* the step just taken and its inputs (history)

vars == <<knock_states, active_knocks, expiration_queue, cleanup_interrupted,
          tick_due, clock, readable, pc, now, fatal, emitted, last>>

\* The state the address's index entry leads to; Vacant without an entry.
Vacant == [type |-> "Vacant", last_idx |-> 0, expires |-> 0]

StateOf(ks, ak, a) == IF ak[a] = NoKey THEN Vacant ELSE sm_get(ks, ak[a])

\* The keys of the records the store holds that queue entries schedule for
\* the address.
RecordsOf(ks, eq, a) == {e.key : e \in {f \in eq : f.addr = a /\ sm_contains(ks, f.key)}}

\* A log line, with what the index and the store hold for its address at
\* the point of the code where it is written.
Event(ev, a, ks, ak, eq) ==
    [ev |-> ev, addr |-> a, index |-> ak[a], records |-> RecordsOf(ks, eq, a)]

(* ------------------------- Expiration Queue --------------------------- *)

Entry(exp, k, a) == [expires |-> exp, key |-> k, addr |-> a]

\* Ord of (Instant, KnockKey, IpAddr): by time, then by the key's index and version.
EntryLess(e, f) ==
    \/ e.expires < f.expires
    \/ e.expires = f.expires /\ e.key.idx < f.key.idx
    \/ e.expires = f.expires /\ e.key.idx = f.key.idx /\ e.key.version < f.key.version

\* BinaryHeap<Reverse<..>>::peek: the least entry.
peek(eq) == CHOOSE e \in eq : \A f \in eq \ {e} : EntryLess(e, f)

(* --------------------------- handle_knock ----------------------------- *)

Result(ks, ak, eq, ev, f) ==
    [knock_states |-> ks, active_knocks |-> ak, expiration_queue |-> eq,
     emitted |-> ev, fatal |-> f]

\* KnockState::expiration is defined for PortPending and Passed alone.
expiration_defined(self) == self.type \in {"PortPending", "Passed"}

expiration(self) == self.expires

\* admit that writes its log line before it writes the index entry.
admit_logs_before_index(ks, ak, eq, addr, knock) ==
    LET knock_key == sm_next_key(ks)
        inserted == sm_insert(ks, knock)
        pushed == eq \cup {Entry(expiration(knock), knock_key, addr)}
        indexed == [ak EXCEPT ![addr] = knock_key]
    IN  IF ~expiration_defined(knock)
        THEN Result(inserted, ak, eq, <<>>,
                    "This should never be called in this cases")
        ELSE Result(inserted, indexed, pushed,
                    <<Event(IF knock.type = "Passed" THEN "Door opened" ELSE "Knock...",
                            addr, inserted, ak, pushed)>>,
                    "")

\* admit without the push on the expiration queue.
admit_no_push(ks, ak, eq, addr, knock) ==
    LET knock_key == sm_next_key(ks)
        inserted == sm_insert(ks, knock)
        indexed == [ak EXCEPT ![addr] = knock_key]
    IN  IF ~expiration_defined(knock)
        THEN Result(inserted, ak, eq, <<>>,
                    "This should never be called in this cases")
        ELSE Result(inserted, indexed, eq,
                    <<Event(IF knock.type = "Passed" THEN "Door opened" ELSE "Knock...",
                            addr, inserted, indexed, eq)>>,
                    "")

\* Lines 171-192: store the live state, schedule its expiry, index it, log.
admit(ks, ak, eq, addr, knock) ==
    LET knock_key == sm_next_key(ks)
        inserted == sm_insert(ks, knock)
        pushed == eq \cup {Entry(expiration(knock), knock_key, addr)}
        indexed == [ak EXCEPT ![addr] = knock_key]
    IN  IF ~expiration_defined(knock)
        THEN Result(inserted, ak, eq, <<>>,
                    "This should never be called in this cases")
        ELSE Result(inserted, indexed, pushed,
                    <<Event(IF knock.type = "Passed" THEN "Door opened" ELSE "Knock...",
                            addr, inserted, indexed, pushed)>>,
                    "")

\* knock_vacant without the is_valid test.
knock_vacant_no_check(ks, ak, eq, addr, port, recent) ==
    admit(ks, ak, eq, addr, try_new(port, recent))

\* Lines 163-192, for an address whose index entry was vacant.
knock_vacant(ks, ak, eq, addr, port, recent) ==
    LET knock == try_new(port, recent)
    IN  IF ~is_valid(knock, recent)
        THEN Result(ks, ak, eq, <<>>, "")
        ELSE admit(ks, ak, eq, addr, knock)

\* knock_occupied without the fast path for a Passed record.
knock_occupied_no_fast_path(ks, ak, eq, addr, port, recent) ==
    LET knock_key == ak[addr]
        old == sm_get(ks, knock_key)
        knock == progress(old, port, recent)
        removed == sm_remove(ks, knock_key)
    IN  IF old.type = "None"
        THEN Result(ks, ak, eq, <<>>,
                    "active knocks should only contain valid knock states")
        ELSE IF knock.type = "Panic"
        THEN Result(removed, ak, eq, <<>>, "index out of bounds")
        ELSE IF ~is_valid(knock, recent)
        THEN Result(removed, [ak EXCEPT ![addr] = NoKey], eq,
                    <<Event("Quiet inside!", addr, removed, ak, eq)>>, "")
        ELSE admit(removed, ak, eq, addr, knock)

\* knock_occupied that leaves the index entry of a broken sequence in place.
knock_occupied_keeps_entry(ks, ak, eq, addr, port, recent) ==
    LET knock_key == ak[addr]
        old == sm_get(ks, knock_key)
        knock == progress(old, port, recent)
        removed == sm_remove(ks, knock_key)
    IN  IF old.type = "None"
        THEN Result(ks, ak, eq, <<>>,
                    "active knocks should only contain valid knock states")
        ELSE IF old.type = "Passed"
        THEN Result(ks, ak, eq, <<Event("Door already open", addr, ks, ak, eq)>>, "")
        ELSE IF knock.type = "Panic"
        THEN Result(removed, ak, eq, <<>>, "index out of bounds")
        ELSE IF ~is_valid(knock, recent)
        THEN Result(removed, ak, eq,
                    <<Event("Quiet inside!", addr, removed, ak, eq)>>, "")
        ELSE admit(removed, ak, eq, addr, knock)

\* Lines 146-192, for an address whose index entry was occupied.
knock_occupied(ks, ak, eq, addr, port, recent) ==
    LET knock_key == ak[addr]
        old == sm_get(ks, knock_key)
        knock == progress(old, port, recent)
        removed == sm_remove(ks, knock_key)
    IN  IF old.type = "None"
        THEN Result(ks, ak, eq, <<>>,
                    "active knocks should only contain valid knock states")
        ELSE IF old.type = "Passed"
        THEN Result(ks, ak, eq, <<Event("Door already open", addr, ks, ak, eq)>>, "")
        ELSE IF knock.type = "Panic"
        THEN Result(removed, ak, eq, <<>>, "index out of bounds")
        ELSE IF ~is_valid(knock, recent)
        THEN Result(removed, [ak EXCEPT ![addr] = NoKey], eq,
                    <<Event("Quiet inside!", addr, removed, ak, eq)>>, "")
        ELSE admit(removed, ak, eq, addr, knock)

handle_knock(packet, ks, ak, eq, recent) ==
    IF ~try_from(packet).ok
    THEN Result(ks, ak, eq, <<>>, "")
    ELSE IF ak[knock_addr(packet)] = NoKey
    THEN knock_vacant(ks, ak, eq, knock_addr(packet), knock_port(packet), recent)
    ELSE knock_occupied(ks, ak, eq, knock_addr(packet), knock_port(packet), recent)

(* ------------------------- history variables -------------------------- *)

\* What a step found: the variant, its step of the sequence, and whether its
\* window was still open (expires > the clock) when the step ran.
Found(st, t) == [type |-> st.type, last_idx |-> st.last_idx, live |-> st.expires > t]

Step(op, addr, port, pre, key) ==
    [op |-> op, addr |-> addr, port |-> port, pre |-> pre, key |-> key]

NoStep(op) == Step(op, "", 0, Found(NoState, 0), NoKey)

(* ------------------------------ actions ------------------------------- *)

\* cleanup_interval, period CLEANUP_PERIOD, MissedTickBehavior::Skip: its
\* first tick is ready at once, and after a tick its deadline is the next
\* multiple of the period.  While the deadline lies ahead it is therefore
\* the next multiple of the period after the current time.
next_tick(t) == ((t \div CLEANUP_PERIOD) + 1) * CLEANUP_PERIOD

Init ==
    /\ knock_states = sm_new
    /\ active_knocks = [a \in Addrs |-> NoKey]
    /\ expiration_queue = {}
    /\ cleanup_interrupted = FALSE
    /\ tick_due = TRUE
    /\ clock = 0
    /\ readable = FALSE
    /\ pc = "select"
    /\ now = 0
    /\ fatal = ""
    /\ emitted = <<>>
    /\ last = NoStep("init")

\* The upkeep thread refreshes the cached clock.  The handlers are
\* synchronous and far shorter than the refresh period, so the clock moves
\* between handlers: while the loop waits at select!.
Tick(t) ==
    /\ fatal = ""
    /\ pc = "select"
    /\ t > clock
    /\ clock' = t
    /\ tick_due' = (tick_due \/ clock' >= next_tick(clock))
    /\ emitted' = <<>>
    /\ last' = NoStep("tick")
    /\ UNCHANGED <<knock_states, active_knocks, expiration_queue,
                   cleanup_interrupted, readable, pc, now, fatal>>

\* A frame reaches the raw socket.
Arrive ==
    /\ fatal = ""
    /\ ~readable
    /\ Cardinality(expiration_queue) < MaxQueue
    /\ sm_issued(knock_states) < MaxKeys
    /\ readable' = TRUE
    /\ emitted' = <<>>
    /\ last' = NoStep("arrive")
    /\ UNCHANGED <<knock_states, active_knocks, expiration_queue,
                   cleanup_interrupted, tick_due, clock, pc, now, fatal>>

\* select!'s first branch: socket.read is ready, handle_knock runs on the frame.
HandleKnock(packet) ==
    /\ fatal = ""
    /\ pc = "select"
    /\ readable
    /\ readable' = FALSE
    /\ LET r == handle_knock(packet, knock_states, active_knocks,
                             expiration_queue, clock)
           a == knock_addr(packet)
           p == knock_port(packet)
       IN  /\ knock_states' = r.knock_states
           /\ active_knocks' = r.active_knocks
           /\ expiration_queue' = r.expiration_queue
           /\ emitted' = r.emitted
           /\ fatal' = r.fatal
           /\ last' = IF try_from(packet).ok
                      THEN Step("knock", a, p,
                                Found(StateOf(knock_states, active_knocks, a), clock),
                                NoKey)
                      ELSE NoStep("drop")
    /\ UNCHANGED <<cleanup_interrupted, tick_due, clock, pc, now>>

\* perform_cleanup's entry: sample the clock.
EnterCleanup ==
    /\ now' = clock
    /\ pc' = "cleanup"
    /\ emitted' = <<>>
    /\ last' = NoStep("cleanup")
    /\ UNCHANGED <<knock_states, active_knocks, expiration_queue,
                   cleanup_interrupted, clock, readable, fatal>>

\* TickCleanup in a select! without bias: the tick's branch may run while a
\* packet is ready.
TickCleanup_unbiased ==
    /\ fatal = ""
    /\ pc = "select"
    /\ tick_due
    /\ tick_due' = FALSE
    /\ EnterCleanup

\* select!'s second branch: no packet is ready and the interval's tick is due.
TickCleanup ==
    /\ fatal = ""
    /\ pc = "select"
    /\ ~readable
    /\ tick_due
    /\ tick_due' = FALSE
    /\ EnterCleanup

\* select!'s third branch: neither is ready and cleanup_interrupted is set.
PendingCleanup ==
    /\ fatal = ""
    /\ pc = "select"
    /\ ~readable
    /\ ~tick_due
    /\ cleanup_interrupted
    /\ UNCHANGED tick_due
    /\ EnterCleanup

\* perform_cleanup's loop is left when the queue is empty or its least
\* entry is not due (false), or when the socket is readable (true).
cleanup_done(eq, t) == IF eq = {} THEN TRUE ELSE peek(eq).expires > t

\* CleanupReturn that reports a pass cut short by a packet as complete.
CleanupReturn_forgets ==
    /\ fatal = ""
    /\ pc = "cleanup"
    /\ IF readable THEN TRUE ELSE cleanup_done(expiration_queue, now)
    /\ cleanup_interrupted' = FALSE
    /\ pc' = "select"
    /\ now' = 0
    /\ emitted' = <<>>
    /\ last' = NoStep("return")
    /\ UNCHANGED <<knock_states, active_knocks, expiration_queue, tick_due,
                   clock, readable, fatal>>

\* perform_cleanup returns: true when a ready packet cut the loop short,
\* false when the loop ended.
CleanupReturn ==
    /\ fatal = ""
    /\ pc = "cleanup"
    /\ IF readable THEN TRUE ELSE cleanup_done(expiration_queue, now)
    /\ cleanup_interrupted' = ~cleanup_done(expiration_queue, now)
    /\ pc' = "select"
    /\ now' = 0
    /\ emitted' = <<>>
    /\ last' = NoStep("return")
    /\ UNCHANGED <<knock_states, active_knocks, expiration_queue, tick_due,
                   clock, readable, fatal>>

\* pop_entry that removes the record and leaves its index entry.
pop_entry_keeps_index(ks, ak, eq) ==
    LET item == peek(eq)
        knock == sm_get(ks, item.key)
    IN  IF knock.type = "None"
        THEN Result(ks, ak, eq \ {item}, <<>>, "")
        ELSE Result(sm_remove(ks, item.key), ak, eq \ {item},
                    <<Event(IF knock.type = "Passed" THEN "Door closed"
                            ELSE "Cleared knock attempts", item.addr,
                            sm_remove(ks, item.key), ak, eq \ {item})>>,
                    "")

\* pop_entry that clears the popped address's index entry whether or not
\* the popped key is still in the store.
pop_entry_clears_always(ks, ak, eq) ==
    LET item == peek(eq)
        knock == sm_get(ks, item.key)
    IN  Result(sm_remove(ks, item.key),
               [ak EXCEPT ![item.addr] = NoKey],
               eq \ {item},
               IF knock.type = "None" THEN <<>>
               ELSE <<Event(IF knock.type = "Passed" THEN "Door closed"
                            ELSE "Cleared knock attempts", item.addr,
                            sm_remove(ks, item.key),
                            [ak EXCEPT ![item.addr] = NoKey], eq \ {item})>>,
               "")

\* pop_entry that logs the closing of a door for every record it removes.
pop_entry_always_closed(ks, ak, eq) ==
    LET item == peek(eq)
        knock == sm_get(ks, item.key)
        popped == eq \ {item}
        removed == sm_remove(ks, item.key)
        unindexed == [ak EXCEPT ![item.addr] = NoKey]
    IN  IF knock.type = "None"
        THEN Result(ks, ak, popped, <<>>, "")
        ELSE Result(removed, unindexed, popped,
                    <<Event("Door closed", item.addr, removed, unindexed, popped)>>,
                    "")

\* Lines 231-244: pop the least entry and reconcile it with the store.
pop_entry(ks, ak, eq) ==
    LET item == peek(eq)
        knock == sm_get(ks, item.key)
        popped == eq \ {item}
        removed == sm_remove(ks, item.key)
        unindexed == [ak EXCEPT ![item.addr] = NoKey]
    IN  IF knock.type = "None"
        THEN Result(ks, ak, popped, <<>>, "")
        ELSE Result(removed, unindexed, popped,
                    <<Event(IF knock.type = "Passed" THEN "Door closed"
                            ELSE "Cleared knock attempts",
                            item.addr, removed, unindexed, popped)>>,
                    "")

\* CleanupPop without the test of the socket before the pop.
CleanupPop_no_bail_out ==
    /\ fatal = ""
    /\ pc = "cleanup"
    /\ ~cleanup_done(expiration_queue, now)
    /\ LET r == pop_entry(knock_states, active_knocks, expiration_queue)
           item == peek(expiration_queue)
       IN  /\ knock_states' = r.knock_states
           /\ active_knocks' = r.active_knocks
           /\ expiration_queue' = r.expiration_queue
           /\ emitted' = r.emitted
           /\ last' = Step("pop", item.addr, 0,
                           Found(sm_get(knock_states, item.key), now), item.key)
    /\ UNCHANGED <<cleanup_interrupted, tick_due, clock, readable, pc, now,
                   fatal>>

\* One iteration of perform_cleanup's loop that pops an entry.
CleanupPop ==
    /\ fatal = ""
    /\ pc = "cleanup"
    /\ ~cleanup_done(expiration_queue, now)
    /\ ~readable
    /\ LET r == pop_entry(knock_states, active_knocks, expiration_queue)
           item == peek(expiration_queue)
       IN  /\ knock_states' = r.knock_states
           /\ active_knocks' = r.active_knocks
           /\ expiration_queue' = r.expiration_queue
           /\ emitted' = r.emitted
           /\ last' = Step("pop", item.addr, 0,
                           Found(sm_get(knock_states, item.key), now), item.key)
    /\ UNCHANGED <<cleanup_interrupted, tick_due, clock, readable, pc, now,
                   fatal>>

Next ==
    \/ \E t \in Instants : Tick(t)
    \/ Arrive
    \/ \E packet \in Frames : HandleKnock(packet)
    \/ TickCleanup
    \/ PendingCleanup
    \/ CleanupReturn
    \/ CleanupPop

Spec == Init /\ [][Next]_vars

\* The loop does not stall: a branch of select! that is ready is taken, and
\* perform_cleanup, once entered, runs on to its return.  Nothing is assumed
\* of the arrival of packets or of the clock.
LiveSpec ==
    /\ Spec
    /\ WF_vars(\E packet \in Frames : HandleKnock(packet))
    /\ WF_vars(TickCleanup)
    /\ WF_vars(PendingCleanup)
    /\ WF_vars(CleanupPop)
    /\ WF_vars(CleanupReturn)

(* ------------------- ExpirationQueue (expire.rs) ---------------------- *)

\* Ord for ExpirationEntry compares the expiry alone, so the heap's top is
\* some entry of least expiry; which one among equals depends on the heap's
\* layout.
least_entries(inner) == {e \in inner : \A f \in inner : e.expires <= f.expires}

\* What peek_mut finds: one of the least entries, or nothing.
NoEntry == Entry(0, NoKey, "")

peek_mut(inner) == IF inner = {} THEN {NoEntry} ELSE least_entries(inner)

CleanResult(ret, ks, ak, inner, ev) ==
    [ret |-> ret, knock_states |-> ks, active_knocks |-> ak, inner |-> inner,
     emitted |-> ev]

\* try_clean_next that reports no work done when the entry it popped was stale.
try_clean_next_stale_is_idle(inner, ks, ak, item, recent) ==
    LET popped == inner \ {item}
        knock == sm_get(ks, item.key)
        removed == sm_remove(ks, item.key)
        unindexed == [ak EXCEPT ![item.addr] = NoKey]
    IN  IF inner = {} THEN CleanResult(FALSE, ks, ak, inner, <<>>)
        ELSE IF item.expires > recent THEN CleanResult(FALSE, ks, ak, inner, <<>>)
        ELSE IF knock.type # "None"
        THEN CleanResult(TRUE, removed, unindexed, popped,
                 <<Event(IF knock.type = "Passed" THEN "Door closed"
                         ELSE "Cleaned knock attempts",
                         item.addr, removed, unindexed, popped)>>)
        ELSE CleanResult(FALSE, ks, ak, popped,
                 <<Event("Cleaned stale entry", item.addr, ks, ak, popped)>>)

\* ExpirationQueue::try_clean_next, item being what peek_mut finds.
try_clean_next(inner, ks, ak, item, recent) ==
    LET popped == inner \ {item}
        knock == sm_get(ks, item.key)
        removed == sm_remove(ks, item.key)
        unindexed == [ak EXCEPT ![item.addr] = NoKey]
    IN  IF inner = {} THEN CleanResult(FALSE, ks, ak, inner, <<>>)
        ELSE IF item.expires > recent THEN CleanResult(FALSE, ks, ak, inner, <<>>)
        ELSE IF knock.type # "None"
        THEN CleanResult(TRUE, removed, unindexed, popped,
                 <<Event(IF knock.type = "Passed" THEN "Door closed"
                         ELSE "Cleaned knock attempts",
                         item.addr, removed, unindexed, popped)>>)
        ELSE CleanResult(TRUE, ks, ak, popped,
                 <<Event("Cleaned stale entry", item.addr, ks, ak, popped)>>)

\* One call of try_clean_next, made while no packet is ready, on the queue,
\* the store and the index as handle_knock has built them; its return value
\* is kept in last.op.
TryCleanNext ==
    /\ fatal = ""
    /\ pc = "select"
    /\ ~readable
    /\ \E item \in peek_mut(expiration_queue) :
          LET r == try_clean_next(expiration_queue, knock_states, active_knocks,
                                  item, clock)
          IN  /\ knock_states' = r.knock_states
              /\ active_knocks' = r.active_knocks
              /\ expiration_queue' = r.inner
              /\ emitted' = r.emitted
              /\ last' = IF r.ret
                         THEN Step("clean: true", item.addr, 0,
                                   Found(sm_get(knock_states, item.key), clock),
                                   item.key)
                         ELSE NoStep("clean: false")
    /\ UNCHANGED <<cleanup_interrupted, tick_due, clock, readable, pc, now, fatal>>

NextExpire ==
    \/ \E t \in Instants : Tick(t)
    \/ Arrive
    \/ \E packet \in Frames : HandleKnock(packet)
    \/ TryCleanNext

ExpireSpec == Init /\ [][NextExpire]_vars

(* ------------------------------ claims -------------------------------- *)

\* The state the address's index entry now leads to.
Current(a) == StateOf(knock_states, active_knocks, a)

\* The step just taken was handle_knock on a decoded packet.
Knocked == last.op = "knock"

\* The log lines em are the one line ev for the address.
LoggedIn(em, ev, a) ==
    /\ Len(em) = 1
    /\ em[1].ev = ev
    /\ em[1].addr = a

\* The step just taken wrote the one log line ev for the address.
Logged(ev, a) == LoggedIn(emitted, ev, a)

\* C1: between operations the index and the store agree for every address:
\* the index holds the address iff the store holds a record scheduled for
\* it, no index entry leads to a removed record, and every record of the
\* store is the target of exactly one index entry.
C1_IndexMatchesStore ==
    /\ \A a \in Addrs :
          active_knocks[a] # NoKey <=> RecordsOf(knock_states, expiration_queue, a) # {}
    /\ \A a \in Addrs :
          active_knocks[a] # NoKey => sm_contains(knock_states, active_knocks[a])
    /\ \A k \in sm_keys(knock_states) :
          Cardinality({a \in Addrs : active_knocks[a] = k}) = 1

\* C1 witness: a sweep has removed one address's record while the other
\* address still holds one.
C1_Witness ==
    /\ last.op = "pop"
    /\ last.pre.type # "None"
    /\ active_knocks[last.addr] = NoKey
    /\ \E a \in Addrs : active_knocks[a] # NoKey

\* C2: from a vacant entry the first port gives PortPending step 0; from a
\* PortPending record at step 0 or 1 whose window is open the next port of
\* the sequence gives the next step; from step 2 the last port gives Passed,
\* expiring one passed window after that knock, and the door is opened.
C2_SequenceOpensDoor ==
    Knocked =>
        /\ (last.pre.type = "Vacant" /\ last.port = SeqAt(0))
              => Current(last.addr) = PortPending(0, clock + PENDING_DURATION)
        /\ \A s \in 0..1 :
              (/\ last.pre.type = "PortPending" /\ last.pre.live
               /\ last.pre.last_idx = s /\ last.port = SeqAt(s + 1))
              => Current(last.addr) = PortPending(s + 1, clock + PENDING_DURATION)
        /\ (/\ last.pre.type = "PortPending" /\ last.pre.live
            /\ last.pre.last_idx = 2 /\ last.port = SeqAt(3))
              => /\ Current(last.addr) = Passed(clock + PASSED_DURATION)
                 /\ Logged("Door opened", last.addr)

\* C2 witness: the fourth knock, inside the window of step 2, at an instant
\* later than start-up, has opened the door.
C2_Witness ==
    /\ Knocked
    /\ last.pre = [type |-> "PortPending", last_idx |-> 2, live |-> TRUE]
    /\ last.port = SeqAt(3)
    /\ clock > 0
    /\ Current(last.addr).type = "Passed"

\* The port is wrong for a PortPending record at step s: it is neither the
\* first port, nor the port at s, nor the port at s + 1.
WrongPort(s, port) == port \notin {SeqAt(0), SeqAt(s), SeqAt(s + 1)}

\* C3: a wrong port purges the address.  A vacant address knocking any port
\* but the first leaves store, index and queue as they were; a PortPending
\* address knocking a wrong port ends with no index entry and no record, and
\* nothing is pushed on the queue.
C3_WrongPortPurges ==
    [][ last'.op = "knock" =>
          /\ (last'.pre.type = "Vacant" /\ last'.port # SeqAt(0))
                => UNCHANGED <<knock_states, active_knocks, expiration_queue>>
          /\ (last'.pre.type = "PortPending"
              /\ WrongPort(last'.pre.last_idx, last'.port))
                => /\ active_knocks'[last'.addr] = NoKey
                   /\ ~sm_contains(knock_states', active_knocks[last'.addr])
                   /\ RecordsOf(knock_states', expiration_queue', last'.addr) = {}
                   /\ expiration_queue' = expiration_queue
                   /\ LoggedIn(emitted', "Quiet inside!", last'.addr) ]_vars

\* C3 witness: a PortPending address at step 1 has knocked a wrong port and
\* is gone from the index.
C3_Witness ==
    /\ Knocked
    /\ last.pre.type = "PortPending"
    /\ last.pre.last_idx = 1
    /\ WrongPort(1, last.port)
    /\ active_knocks[last.addr] = NoKey

\* C4: a knock that is not the first port, arriving when the address's
\* PortPending window has elapsed, swept or not, leaves the address with no
\* index entry and no record.
C4_LateKnockFails ==
    (/\ Knocked
     /\ last.port # SeqAt(0)
     /\ \/ last.pre.type = "Vacant"
        \/ last.pre.type = "PortPending" /\ ~last.pre.live)
    => /\ active_knocks[last.addr] = NoKey
       /\ RecordsOf(knock_states, expiration_queue, last.addr) = {}

\* C5: a packet handled at or after a Passed record's expiry does not take
\* the already-open path, and a knock on the first port then leaves the
\* address at PortPending step 0.
C5_ExpiredPassedRestarts ==
    (/\ Knocked
     /\ last.pre.type = "Passed"
     /\ ~last.pre.live)
    => /\ ~Logged("Door already open", last.addr)
       /\ last.port = SeqAt(0)
             => Current(last.addr) = PortPending(0, clock + PENDING_DURATION)

\* C6: a packet from an address whose Passed window is open changes neither
\* the store, nor the index, nor the queue.
C6_OpenDoorUntouched ==
    [][ (/\ last'.op = "knock"
         /\ last'.pre.type = "Passed"
         /\ last'.pre.live)
        => UNCHANGED <<knock_states, active_knocks, expiration_queue>> ]_vars

\* C6 witness: such a packet has been handled, at an instant later than the
\* one that opened the door.
C6_Witness ==
    /\ Knocked
    /\ last.pre.type = "Passed"
    /\ last.pre.live
    /\ Current(last.addr).expires < clock + PASSED_DURATION
    /\ Logged("Door already open", last.addr)

\* C7: handle_knock on a decoded packet leaves the index entry and the
\* record of every address other than the packet's source as they were.
C7_KeyedBySource ==
    [][ \A packet \in Frames :
          (HandleKnock(packet) /\ try_from(packet).ok)
          => \A a \in Addrs \ {packet.src_addr} :
                /\ active_knocks'[a] = active_knocks[a]
                /\ StateOf(knock_states', active_knocks', a)
                     = StateOf(knock_states, active_knocks, a) ]_vars

\* C8: a knock on the first port from a PortPending address, at any step,
\* leaves it indexed at PortPending step 0 with a fresh pending window.
C8_RestartResets ==
    (/\ Knocked
     /\ last.pre.type = "PortPending"
     /\ last.port = SeqAt(0))
    => /\ active_knocks[last.addr] # NoKey
       /\ Current(last.addr) = PortPending(0, clock + PENDING_DURATION)

\* C8 witness: an address at step 2 has restarted.
C8_Witness ==
    /\ Knocked
    /\ last.pre.type = "PortPending"
    /\ last.pre.last_idx = 2
    /\ last.port = SeqAt(0)
    /\ Current(last.addr).last_idx = 0

\* C9: a knock on the port at the record's own step keeps the step and
\* gives a fresh pending window; and from a PortPending record at step s,
\* such as that one, the port at s + 1 gives step s + 1, or Passed from
\* step 2.
C9_DuplicateRefreshes ==
    Knocked =>
        /\ (/\ last.pre.type = "PortPending"
            /\ last.port = SeqAt(last.pre.last_idx))
              => Current(last.addr)
                   = PortPending(last.pre.last_idx, clock + PENDING_DURATION)
        /\ (/\ last.pre.type = "PortPending"
            /\ last.port = SeqAt(last.pre.last_idx + 1))
              => Current(last.addr)
                   = IF last.pre.last_idx + 2 = Len(PORT_SEQUENCE)
                     THEN Passed(clock + PASSED_DURATION)
                     ELSE PortPending(last.pre.last_idx + 1, clock + PENDING_DURATION)

\* C9 witness: an address at step 1 has repeated the port of step 1, at an
\* instant later than the first knock on it, and holds a new window.
C9_Witness ==
    /\ Knocked
    /\ last.pre = [type |-> "PortPending", last_idx |-> 1, live |-> TRUE]
    /\ last.port = SeqAt(1)
    /\ clock > 0
    /\ \E e \in expiration_queue :
          /\ e.addr = last.addr
          /\ e.expires < clock + PENDING_DURATION
    /\ Current(last.addr) = PortPending(1, clock + PENDING_DURATION)

\* C10: popping a due entry whose key the store no longer holds changes
\* neither the store nor the index and logs nothing.
C10_TombstoneIsNoOp ==
    [][ (last'.op = "pop" /\ last'.pre.type = "None")
        => /\ UNCHANGED <<knock_states, active_knocks>>
           /\ emitted' = <<>> ]_vars

\* C10 witness: a tombstone of an address has been popped while the same
\* address holds a record made by a later knock.
C10_Witness ==
    /\ last.op = "pop"
    /\ last.pre.type = "None"
    /\ active_knocks[last.addr] # NoKey
    /\ sm_contains(knock_states, active_knocks[last.addr])

\* C11: a pop of a due entry whose key the store still holds removes the
\* record and the address's index entry in that step, and logs "Door
\* closed" exactly when the removed state was Passed and "Cleared knock
\* attempts" exactly when it was PortPending.
C11_PopRemovesRecordAndIndex ==
    [][ (last'.op = "pop" /\ last'.pre.type # "None")
        => /\ sm_contains(knock_states, last'.key)
           /\ ~sm_contains(knock_states', last'.key)
           /\ active_knocks'[last'.addr] = NoKey
           /\ last'.pre.type \in {"Passed", "PortPending"}
           /\ last'.pre.type = "Passed"
                 <=> LoggedIn(emitted', "Door closed", last'.addr)
           /\ last'.pre.type = "PortPending"
                 <=> LoggedIn(emitted', "Cleared knock attempts", last'.addr) ]_vars

\* C11 witness: a sweep has closed the door of one address while the other
\* address still holds a PortPending record.
C11_Witness ==
    /\ last.op = "pop"
    /\ last.pre.type = "Passed"
    /\ Logged("Door closed", last.addr)
    /\ active_knocks[last.addr] = NoKey
    /\ \E a \in Addrs : Current(a).type = "PortPending"

\* The queue holds an entry that is due at the time t.
DueAt(eq, t) == \E e \in eq : e.expires <= t

\* C12: while a packet is ready and unhandled the loop at select! does not
\* enter cleanup, whether the tick is due or the pending-cleanup signal is
\* set, and no entry leaves the expiration queue.
C12_PacketBeforeCleanup ==
    [][ readable
        => /\ expiration_queue \subseteq expiration_queue'
           /\ pc = "select" => pc' = "select" ]_vars

\* C12 witness: a packet that cut a cleanup short has been handled while the
\* pending-cleanup signal was set and the queue held a due entry.
C12_Witness ==
    /\ Knocked
    /\ cleanup_interrupted
    /\ DueAt(expiration_queue, clock)

Reconciled(e) ==
    /\ e.index # NoKey => e.index \in e.records
    /\ e.records \subseteq {e.index}

C15_OneEntryPerRecord ==
    \A k \in sm_keys(knock_states) :
        LET es == {e \in expiration_queue : e.key = k}
        IN  /\ Cardinality(es) = 1
            /\ \A e \in es :
                  /\ e.expires = sm_get(knock_states, k).expires
                  /\ active_knocks[e.addr] = k

\* C15 witness: the queue holds the entry of a record and a tombstone of the
\* same address that used the same slot of the store.
C15_Witness ==
    \E e \in expiration_queue, f \in expiration_queue :
        /\ e.addr = f.addr
        /\ e.key.idx = f.key.idx
        /\ sm_contains(knock_states, e.key)
        /\ ~sm_contains(knock_states, f.key)
        /\ f.expires < e.expires

\* C16: no panic ends the process: the lookup and the removal of an indexed
\* key succeed, expiration() is not called on Failed, the Failed arm of the
\* last match is not reached, and no index into the sequence is out of
\* bounds.
C16_NoPanic == fatal = ""

\* C16 witness: handle_knock has found an address in the index whose record
\* was at the last pending step, and broke its sequence.
C16_Witness ==
    /\ Knocked
    /\ last.pre.type = "PortPending"
    /\ last.pre.last_idx = Len(PORT_SEQUENCE) - 2
    /\ WrongPort(last.pre.last_idx, last.port)
    /\ fatal = ""

\* handle_knock has stored something for the address: a key was issued, an
\* entry was pushed or the index entry was written.
Stored(a) ==
    \/ sm_issued(knock_states') > sm_issued(knock_states)
    \/ expiration_queue' # expiration_queue
    \/ active_knocks'[a] \notin {NoKey, active_knocks[a]}

\* C17: every record of the store is PortPending or Passed, and whenever
\* handle_knock stores a record, pushes an entry or writes the index, the
\* state stored is one whose window is open at that time.
C17_FailedNeverStored ==
    [][ /\ \A k \in sm_keys(knock_states') :
              sm_get(knock_states', k).type \in {"PortPending", "Passed"}
        /\ (last'.op = "knock" /\ Stored(last'.addr))
              => /\ is_valid(StateOf(knock_states', active_knocks', last'.addr), clock')
                 /\ sm_issued(knock_states') = sm_issued(knock_states) + 1
                 /\ Cardinality(expiration_queue') = Cardinality(expiration_queue) + 1 ]_vars

\* C17 witness: a vacant address has knocked a port other than the first
\* while the other address holds a record, and nothing was stored for it.
C17_Witness ==
    /\ Knocked
    /\ last.pre.type = "Vacant"
    /\ last.port # SeqAt(0)
    /\ active_knocks[last.addr] = NoKey
    /\ Cardinality(sm_keys(knock_states)) = 1
    /\ Cardinality(expiration_queue) = 1

\* C18: try_clean_next returns false and leaves queue, store and index as
\* they were when the queue is empty or every entry expires later than the
\* current time; otherwise it returns true and pops exactly one entry, one
\* of least expiry, whether the store holds its key or not.
C18_CleansOneDueEntry ==
    [][ last'.op \in {"clean: true", "clean: false"}
        => IF \A e \in expiration_queue : e.expires > clock
           THEN /\ last'.op = "clean: false"
                /\ UNCHANGED <<expiration_queue, knock_states, active_knocks>>
           ELSE /\ last'.op = "clean: true"
                /\ \E e \in expiration_queue :
                      /\ \A f \in expiration_queue : e.expires <= f.expires
                      /\ expiration_queue' = expiration_queue \ {e} ]_vars

\* C18 witness: try_clean_next has popped a stale entry and returned true,
\* with another due entry left in the queue.
C18_Witness ==
    /\ last.op = "clean: true"
    /\ last.pre.type = "None"
    /\ \E e \in expiration_queue : e.expires <= clock

\* C19: if from some point on no packet is ready, then from some point on
\* the queue holds no entry whose expiry has passed: every due entry is
\* popped in the end, also those a pass cut short by a packet left behind.
C19_CleanupCompletes ==
    <>[](~readable) => <>[](~DueAt(expiration_queue, clock))

\* C19 witness: a pass started by the pending-cleanup signal, after a pass
\* that a packet cut short, has popped an entry and left none due.
C19_Witness ==
    /\ last.op = "pop"
    /\ cleanup_interrupted
    /\ ~tick_due
    /\ ~DueAt(expiration_queue, clock)

\* C20: cleanup removes a record only at or after the record's own expiry,
\* and a pop leaves every address whose record is within its window at the
\* time cleanup sampled as it was, whatever entries earlier attempts of the
\* address left in the queue.
C20_NoEarlyRemoval ==
    [][ last'.op = "pop"
        => /\ last'.pre.type # "None" => ~last'.pre.live
           /\ \A a \in Addrs :
                 is_valid(StateOf(knock_states, active_knocks, a), now)
                 => /\ active_knocks'[a] = active_knocks[a]
                    /\ StateOf(knock_states', active_knocks', a)
                         = StateOf(knock_states, active_knocks, a) ]_vars

\* C20 witness: cleanup has popped a due entry of an earlier attempt whose
\* slot of the store now holds the address's later record, and that record,
\* within its window, is still indexed.
C20_Witness ==
    /\ last.op = "pop"
    /\ last.pre.type = "None"
    /\ active_knocks[last.addr] # NoKey
    /\ last.key.idx = active_knocks[last.addr].idx
    /\ is_valid(Current(last.addr), clock)

\* C21: every PortPending record of the store is at step 0, 1 or 2, so the
\* sequence element after its step exists; one handled knock leaves the
\* address at most one step further, a vacant address at step 0; and an
\* address comes to hold a Passed record only by a handled knock on the
\* last port of the sequence, found at PortPending step 2.
C21_NoShortcut ==
    [][ /\ \A k \in sm_keys(knock_states') :
              sm_get(knock_states', k).type = "PortPending"
              => sm_get(knock_states', k).last_idx \in 0..(Len(PORT_SEQUENCE) - 2)
        /\ last'.op = "knock"
              => LET post == StateOf(knock_states', active_knocks', last'.addr)
                 IN  post.type = "PortPending"
                     => /\ last'.pre.type \in {"Vacant", "PortPending"}
                        /\ last'.pre.type = "Vacant" => post.last_idx = 0
                        /\ last'.pre.type = "PortPending"
                              => post.last_idx <= last'.pre.last_idx + 1
        /\ \A a \in Addrs :
              (/\ StateOf(knock_states', active_knocks', a).type = "Passed"
               /\ StateOf(knock_states, active_knocks, a).type # "Passed")
              => /\ last'.op = "knock"
                 /\ last'.addr = a
                 /\ last'.port = SeqAt(Len(PORT_SEQUENCE) - 1)
                 /\ last'.pre.type = "PortPending"
                 /\ last'.pre.last_idx = Len(PORT_SEQUENCE) - 2 ]_vars

\* C21 witness: the door has been opened for an address whose three earlier
\* steps are all still in the queue as stale entries.
C21_Witness ==
    /\ Knocked
    /\ Logged("Door opened", last.addr)
    /\ Current(last.addr).type = "Passed"
    /\ Cardinality({e \in expiration_queue :
                       e.addr = last.addr /\ ~sm_contains(knock_states, e.key)}) = 3

====
